---------------------------- MODULE Spec2Model ----------------------------
(***************************************************************************)
(* gostat: display and set file time stamps (src/gostat.go).               *)
(*                                                                         *)
(* Texts (file names, glob patterns, time stamps) are sequences of         *)
(* one-character strings.  The file system is one flat directory; names    *)
(* and patterns contain no path separator.                                 *)
(***************************************************************************)
EXTENDS Integers, Sequences, FiniteSets, TLC

(***************************************************************************)
(* Characters and their byte order (used by glob character ranges).        *)
(***************************************************************************)
Ord(c) ==
    CASE c = "*" -> 42 [] c = "-" -> 45 [] c = "." -> 46 [] c = "/" -> 47
      [] c = "0" -> 48 [] c = "1" -> 49 [] c = "2" -> 50 [] c = "3" -> 51
      [] c = "4" -> 52 [] c = "5" -> 53 [] c = "6" -> 54 [] c = "7" -> 55
      [] c = "8" -> 56 [] c = "9" -> 57 [] c = "?" -> 63 [] c = "[" -> 91
      [] c = "\\" -> 92 [] c = "]" -> 93 [] c = "^" -> 94 [] c = "a" -> 97
      [] c = "b" -> 98 [] c = "c" -> 99 [] c = "x" -> 120
      [] OTHER -> 0

Tail2(s) == SubSeq(s, 2, Len(s))

DropN(s, n) == SubSeq(s, n + 1, Len(s))

Contains(s, c) == \E i \in 1..Len(s) : s[i] = c

(***************************************************************************)
(* path/filepath.Match, as called by filepath.Glob (gostat.go:46).         *)
(***************************************************************************)
RECURSIVE SkipStars(_)
SkipStars(p) == IF Len(p) > 0 /\ p[1] = "*" THEN SkipStars(Tail2(p)) ELSE p

\* index (1-based) of the first "*" outside a character class, or Len(p)+1
RECURSIVE ScanIdx(_, _, _)
ScanIdx(p, i, inrange) ==
    IF i > Len(p) THEN i
    ELSE IF p[i] = "\\" THEN (IF i + 1 <= Len(p) THEN ScanIdx(p, i + 2, inrange)
                                                  ELSE ScanIdx(p, i + 1, inrange))
    ELSE IF p[i] = "[" THEN ScanIdx(p, i + 1, TRUE)
    ELSE IF p[i] = "]" THEN ScanIdx(p, i + 1, FALSE)
    ELSE IF p[i] = "*" /\ ~inrange THEN i
    ELSE ScanIdx(p, i + 1, inrange)

scanChunk(pattern) ==
    LET p == SkipStars(pattern)
        i == ScanIdx(p, 1, FALSE)
    IN  [star  |-> Len(pattern) > 0 /\ pattern[1] = "*",
         chunk |-> SubSeq(p, 1, i - 1),
         rest  |-> SubSeq(p, i, Len(p))]

\* one possibly-escaped character of a character class
getEsc(chunk) ==
    IF Len(chunk) = 0 \/ chunk[1] = "-" \/ chunk[1] = "]"
    THEN [err |-> TRUE, r |-> 0, nchunk |-> chunk]
    ELSE LET c == IF chunk[1] = "\\" THEN Tail2(chunk) ELSE chunk
         IN  IF Len(c) = 0
             THEN [err |-> TRUE, r |-> 0, nchunk |-> c]
             ELSE [err |-> Len(c) = 1, r |-> Ord(c[1]), nchunk |-> Tail2(c)]

ClassErr == [err |-> TRUE, match |-> FALSE, chunk |-> <<>>]

\* the ranges of one character class, up to and including the closing "]"
RECURSIVE parseRanges(_, _, _, _)
parseRanges(chunk, r, match, nrange) ==
    IF Len(chunk) > 0 /\ chunk[1] = "]" /\ nrange > 0
    THEN [err |-> FALSE, match |-> match, chunk |-> Tail2(chunk)]
    ELSE LET withHi(lo, hi) ==
                 IF hi.err THEN ClassErr
                 ELSE parseRanges(hi.nchunk, r, match \/ (lo.r <= r /\ r <= hi.r),
                                  nrange + 1)
             withLo(lo) ==
                 IF lo.err THEN ClassErr
                 ELSE IF lo.nchunk[1] = "-" THEN withHi(lo, getEsc(Tail2(lo.nchunk)))
                 ELSE parseRanges(lo.nchunk, r, match \/ lo.r = r, nrange + 1)
         IN  withLo(getEsc(chunk))

ChunkErr == [rest |-> <<>>, ok |-> FALSE, err |-> TRUE]

RECURSIVE matchChunkLoop(_, _, _)
matchChunkLoop(chunk, s, failed0) ==
    IF Len(chunk) = 0
    THEN (IF failed0 THEN [rest |-> <<>>, ok |-> FALSE, err |-> FALSE]
                     ELSE [rest |-> s, ok |-> TRUE, err |-> FALSE])
    ELSE LET failed == failed0 \/ Len(s) = 0
             \* c is the chunk after its first character
             next(c, nowFailed) ==
                 matchChunkLoop(c, IF failed THEN s ELSE Tail2(s), nowFailed)
             class(negated, cls) ==
                 IF cls.err THEN ChunkErr
                 ELSE next(cls.chunk, failed \/ (cls.match = negated))
             literal(c) ==
                 IF Len(c) = 0 THEN ChunkErr
                 ELSE next(Tail2(c), failed \/ c[1] # s[1])
         IN  IF chunk[1] = "["
             THEN (IF Len(chunk) > 1 /\ chunk[2] = "^"
                   THEN class(TRUE, parseRanges(DropN(chunk, 2),
                                                IF failed THEN 0 ELSE Ord(s[1]), FALSE, 0))
                   ELSE class(FALSE, parseRanges(Tail2(chunk),
                                                 IF failed THEN 0 ELSE Ord(s[1]), FALSE, 0)))
             ELSE IF chunk[1] = "?" THEN next(Tail2(chunk), failed \/ s[1] = "/")
             ELSE literal(IF chunk[1] = "\\" THEN Tail2(chunk) ELSE chunk)

matchChunk(chunk, s) == matchChunkLoop(chunk, s, FALSE)

\* the rest of the pattern is well formed (checked before a plain mismatch)
RECURSIVE restBad(_)
restBad(pattern) ==
    IF Len(pattern) = 0 THEN FALSE
    ELSE LET check(sc) == matchChunk(sc.chunk, <<>>).err \/ restBad(sc.rest)
         IN  check(scanChunk(pattern))

RECURSIVE matchFrom(_, _, _)
\* Match once the next chunk sc is scanned; i = 0 tries the chunk at the start
\* of name, i > 0 is the loop that skips i characters of name after a star
matchFrom(sc, name, i) ==
    LET try(m) ==
            IF i = 0
            THEN (IF m.ok /\ (Len(m.rest) = 0 \/ Len(sc.rest) > 0)
                  THEN (IF Len(sc.rest) = 0 THEN [matched |-> Len(m.rest) = 0, err |-> FALSE]
                        ELSE matchFrom(scanChunk(sc.rest), m.rest, 0))
                  ELSE IF m.err THEN [matched |-> FALSE, err |-> TRUE]
                  ELSE IF sc.star THEN matchFrom(sc, name, 1)
                  ELSE [matched |-> FALSE, err |-> restBad(sc.rest)])
            ELSE (IF m.ok /\ ~(Len(sc.rest) = 0 /\ Len(m.rest) > 0)
                  THEN (IF Len(sc.rest) = 0 THEN [matched |-> Len(m.rest) = 0, err |-> FALSE]
                        ELSE matchFrom(scanChunk(sc.rest), m.rest, 0))
                  ELSE IF m.err THEN [matched |-> FALSE, err |-> TRUE]
                  ELSE matchFrom(sc, name, i + 1))
    IN  IF sc.star /\ sc.chunk = <<>> /\ i = 0
        THEN [matched |-> ~Contains(name, "/"), err |-> FALSE]
        ELSE IF i > 0 /\ (i > Len(name) \/ name[i] = "/")
        THEN [matched |-> FALSE, err |-> restBad(sc.rest)]
        ELSE try(matchChunk(sc.chunk, DropN(name, i)))

Match(pattern, name) ==
    IF Len(pattern) = 0 THEN [matched |-> Len(name) = 0, err |-> FALSE]
    ELSE matchFrom(scanChunk(pattern), name, 0)

hasMeta(path) == \E i \in 1..Len(path) : path[i] \in {"*", "?", "[", "\\"}


(***************************************************************************)
(* Instants.  A time.Time is modelled by its absolute value: days since    *)
(* 1970-01-01 UTC, second of the day, nanosecond of the second.            *)
(***************************************************************************)
NsPerSec == 1000000000

SecPerDay == 86400

Norm(d, s, ns) ==
    LET s1 == s + (ns \div NsPerSec)
    IN  [d |-> d + (s1 \div SecPerDay), s |-> s1 % SecPerDay, ns |-> ns % NsPerSec]

TimeLess(t, u) ==
    \/ t.d < u.d
    \/ t.d = u.d /\ t.s < u.s
    \/ t.d = u.d /\ t.s = u.s /\ t.ns < u.ns

isLeap(year) == year % 4 = 0 /\ (year % 100 # 0 \/ year % 400 = 0)

daysIn(month, year) ==
    IF month = 2 THEN (IF isLeap(year) THEN 29 ELSE 28)
    ELSE IF month \in {4, 6, 9, 11} THEN 30 ELSE 31

\* days from 1970-01-01 to the civil date year-month-day (proleptic Gregorian)
daysSinceEpoch(year, month, day) ==
    LET y   == IF month <= 2 THEN year - 1 ELSE year
        era == y \div 400
        yoe == y - era * 400
        mp  == IF month > 2 THEN month - 3 ELSE month + 9
        doy == ((153 * mp + 2) \div 5) + day - 1
        doe == yoe * 365 + (yoe \div 4) - (yoe \div 100) + doy
    IN  era * 146097 + doe - 719468

\* the zero time.Time: January 1, year 1, 00:00:00 UTC
ZeroTime == [d |-> daysSinceEpoch(1, 1, 1), s |-> 0, ns |-> 0]

\* offset east of UTC, in seconds, of the process's local time zone
LocalOffset == 0 * 3600

\* time.Date(year, month, day, hour, min, sec, nsec, time.Local)
Date(year, month, day, hour, min, sec, nsec) ==
    Norm(daysSinceEpoch(year, month, day),
         hour * 3600 + min * 60 + sec - LocalOffset, nsec)

(***************************************************************************)
(* time.ParseInLocation("20060102.150405", dt, time.Local), gostat.go:144. *)
(***************************************************************************)
isDigit(s, i) == i <= Len(s) /\ Ord(s[i]) >= 48 /\ Ord(s[i]) <= 57

DigitVal(c) == Ord(c) - 48

\* two-digit number; one digit is accepted unless fixed
getnum(s, fixed) ==
    IF ~isDigit(s, 1) THEN [err |-> TRUE, n |-> 0, rest |-> s]
    ELSE IF ~isDigit(s, 2)
         THEN (IF fixed THEN [err |-> TRUE, n |-> 0, rest |-> s]
                        ELSE [err |-> FALSE, n |-> DigitVal(s[1]), rest |-> Tail2(s)])
    ELSE [err |-> FALSE, n |-> DigitVal(s[1]) * 10 + DigitVal(s[2]), rest |-> DropN(s, 2)]

\* number of leading digits of s starting at index i
RECURSIVE digitRun(_, _)
digitRun(s, i) == IF isDigit(s, i) THEN 1 + digitRun(s, i + 1) ELSE 0

RECURSIVE atoiDigits(_, _)
atoiDigits(s, acc) ==
    IF Len(s) = 0 THEN acc ELSE atoiDigits(Tail2(s), acc * 10 + DigitVal(s[1]))

RECURSIVE pow10(_)
pow10(n) == IF n = 0 THEN 1 ELSE 10 * pow10(n - 1)

\* value starts with a period or comma followed by nd >= 1 digits
parseNanoseconds(value, nd) ==
    LET k == IF nd > 9 THEN 9 ELSE nd
    IN  atoiDigits(SubSeq(value, 2, k + 1), 0) * pow10(9 - k)

ParseFail == [err |-> TRUE, t |-> ZeroTime]

createDate(dt) ==
    LET \* after the seconds: an optional fraction, then the end of the text
        finish(year, mo, dy, hr, mi, se) ==
            LET v    == se.rest
                frac == Len(v) >= 2 /\ v[1] \in {".", ","} /\ isDigit(v, 2)
                nd   == IF frac THEN digitRun(v, 2) ELSE 0
            IN  IF Len(v) # (IF frac THEN 1 + nd ELSE 0) THEN ParseFail
                ELSE IF dy.n < 1 \/ dy.n > daysIn(mo.n, year) THEN ParseFail
                ELSE [err |-> FALSE,
                      t   |-> Date(year, mo.n, dy.n, hr.n, mi.n, se.n,
                                   IF frac THEN parseNanoseconds(v, nd) ELSE 0)]
        second(year, mo, dy, hr, mi, se) ==
            IF se.err \/ 60 <= se.n THEN ParseFail ELSE finish(year, mo, dy, hr, mi, se)
        minute(year, mo, dy, hr, mi) ==
            IF mi.err \/ 60 <= mi.n THEN ParseFail
            ELSE second(year, mo, dy, hr, mi, getnum(mi.rest, TRUE))
        hour(year, mo, dy, hr) ==
            IF hr.err \/ 24 <= hr.n THEN ParseFail
            ELSE minute(year, mo, dy, hr, getnum(hr.rest, TRUE))
        day(year, mo, dy) ==
            IF dy.err THEN ParseFail
            ELSE IF Len(dy.rest) = 0 \/ dy.rest[1] # "." THEN ParseFail
            ELSE hour(year, mo, dy, getnum(Tail2(dy.rest), FALSE))
        month(year, mo) ==
            IF mo.err \/ mo.n <= 0 \/ 12 < mo.n THEN ParseFail
            ELSE day(year, mo, getnum(mo.rest, TRUE))
    IN  IF Len(dt) < 4 \/ ~isDigit(dt, 1) \/ digitRun(dt, 1) < 4 THEN ParseFail
        ELSE month(atoiDigits(SubSeq(dt, 1, 4), 0), getnum(DropN(dt, 4), TRUE))

\* regexp ^\d{8}\.\d{6}$ of main
validDT(s) ==
    /\ Len(s) = 15
    /\ \A i \in 1..8 : isDigit(s, i)
    /\ s[9] = "."
    /\ \A i \in 10..15 : isDigit(s, i)

(***************************************************************************)
(* Time.UnixNano as used by os.Chtimes: the instant as a signed 64-bit     *)
(* count of nanoseconds since the epoch, wrapping modulo 2^64.             *)
(***************************************************************************)
\* 2^63 ns and 2^64 ns as (days, seconds, nanoseconds)
Two63 == [d |-> 106751, s |-> 85636, ns |-> 854775808]

Two64 == [d |-> 213503, s |-> 84873, ns |-> 709551616]

MinNano == Norm(0 - Two63.d, 0 - Two63.s, 0 - Two63.ns)

RECURSIVE UnixNano(_)
UnixNano(t) ==
    IF ~TimeLess(t, Two63)
    THEN UnixNano(Norm(t.d - Two64.d, t.s - Two64.s, t.ns - Two64.ns))
    ELSE IF TimeLess(t, MinNano)
    THEN UnixNano(Norm(t.d + Two64.d, t.s + Two64.s, t.ns + Two64.ns))
    ELSE t


(***************************************************************************)
(* strconv.FormatInt(n, 10) and FormatWithCommas, gostat.go:68-91.         *)
(***************************************************************************)
DigitChar(d) == <<"0", "1", "2", "3", "4", "5", "6", "7", "8", "9">>[d + 1]

RECURSIVE natDigits(_)
natDigits(n) ==
    IF n < 10 THEN <<DigitChar(n)>> ELSE Append(natDigits(n \div 10), DigitChar(n % 10))

FormatInt(n) == IF n < 0 THEN <<"-">> \o natDigits(0 - n) ELSE natDigits(n)

\* the copying loop: i runs down over the digits, k counts digits since a comma
RECURSIVE commaLoop(_, _, _, _)
commaLoop(in, i, k, out) ==
    IF i = 1 THEN <<in[i]>> \o out
    ELSE IF k + 1 = 3 THEN commaLoop(in, i - 1, 0, <<",", in[i]>> \o out)
    ELSE commaLoop(in, i - 1, k + 1, <<in[i]>> \o out)

FormatWithCommas(n) ==
    LET in == FormatInt(n)
    IN  IF n < 0 THEN <<"-">> \o commaLoop(Tail2(in), Len(in) - 1, 0, <<>>)
                 ELSE commaLoop(in, Len(in), 0, <<>>)

(***************************************************************************)
(* The file system: one directory.  fs maps every name of Names to its     *)
(* directory entry, or to Absent.                                          *)
(*   link   "file" for a file, "dangling" for a symbolic link whose        *)
(*          target is missing: listed by the directory and found by        *)
(*          Lstat, but os.Stat, times.Stat and os.Chtimes follow the link  *)
(*          and fail                                                       *)
(*   own    the process may change the entry's times                       *)
(*   timesOK  times.Stat succeeds                                          *)
(*   hasB, hasC  the platform reports birth / change time for the file     *)
(***************************************************************************)
Names == { <<"a">>, <<"b">>, <<"[", "a", "]">> }

Absent == [link |-> "none"]

Profiles == {"regular", "foreign", "dangling", "notimes"}

\* the clock during the run (value of the change time after an update)
Now == Date(2025, 10, 23, 12, 0, 0, 0)

NameIndex(n) == IF n = <<"a">> THEN 1 ELSE IF n = <<"b">> THEN 2 ELSE 3

Entry(n, p) ==
    [link    |-> IF p = "dangling" THEN "dangling" ELSE "file",
     own     |-> p # "foreign",
     timesOK |-> p # "notimes",
     hasB    |-> p = "regular",
     hasC    |-> p \in {"regular", "foreign"},
     size    |-> 1234 * NameIndex(n),
     a       |-> Date(2025, 6, NameIndex(n), 8, 0, 0, 0),
     m       |-> Date(2025, 5, NameIndex(n), 9, 30, 0, 0),
     c       |-> Date(2025, 5, NameIndex(n), 9, 30, 1, 0),
     b       |-> Date(2025, 4, NameIndex(n), 7, 0, 0, 0)]

Exists(f, path) == path \in Names /\ f[path].link # "none"

\* os.Lstat(path) succeeds
LstatOK(f, path) == Exists(f, path)

\* os.Stat(path) succeeds
StatOK(f, path) == Exists(f, path) /\ f[path].link = "file"

\* times.Stat(path) succeeds
TimesStatOK(f, path) == StatOK(f, path) /\ f[path].timesOK

\* os.Chtimes(path, ...) succeeds
ChtimesOK(f, path) == StatOK(f, path) /\ f[path].own

\* byte-wise string order, as sort.Strings
RECURSIVE LexLess(_, _)
LexLess(x, y) ==
    IF Len(y) = 0 THEN FALSE
    ELSE IF Len(x) = 0 THEN TRUE
    ELSE IF Ord(x[1]) # Ord(y[1]) THEN Ord(x[1]) < Ord(y[1])
    ELSE LexLess(Tail2(x), Tail2(y))

RECURSIVE SortedSeq(_)
SortedSeq(S) ==
    IF S = {} THEN <<>>
    ELSE LET least == CHOOSE x \in S : \A y \in S \ {x} : LexLess(x, y)
         IN  <<least>> \o SortedSeq(S \ {least})

\* Readdirnames of the directory, sorted
DirNames(f) == SortedSeq({n \in Names : Exists(f, n)})

\* the matching loop of filepath.glob over the sorted names
RECURSIVE globLoop(_, _, _)
globLoop(pattern, names, m) ==
    IF Len(names) = 0 THEN [matches |-> m, err |-> FALSE]
    ELSE LET step(r) ==
                 IF r.err THEN [matches |-> m, err |-> TRUE]
                 ELSE globLoop(pattern, Tail2(names),
                               IF r.matched THEN Append(m, names[1]) ELSE m)
         IN  step(Match(pattern, names[1]))

\* filepath.Glob(pattern)
Glob(f, pattern) ==
    IF Match(pattern, <<>>).err THEN [matches |-> <<>>, err |-> TRUE]
    ELSE IF ~hasMeta(pattern)
         THEN [matches |-> IF LstatOK(f, pattern) THEN <<pattern>> ELSE <<>>,
               err |-> FALSE]
    ELSE globLoop(pattern, DirNames(f), <<>>)

(***************************************************************************)
(* Events.  Every function returns, next to its value, the log lines it    *)
(* printed (log), the lines written to standard output (out) and the       *)
(* system calls it made (calls).                                           *)
(***************************************************************************)
Call(fn, path, ok) == [fn |-> fn, path |-> path, ok |-> ok]

LogLine(tag, what) == [tag |-> tag, what |-> what]

OutLine(k, file, v) == [k |-> k, file |-> file, v |-> v]

\* expandLoop that leaves the loop at the first malformed pattern
RECURSIVE expandLoopBreak(_, _, _)
expandLoopBreak(f, args, acc) ==
    IF Len(args) = 0 THEN acc
    ELSE LET glob == args[1]
             body(g) ==
                 IF g.err
                 THEN [files |-> acc.files,
                       log   |-> Append(acc.log, LogLine("Glob Error", glob)),
                       calls |-> Append(acc.calls, Call("Glob", glob, FALSE)),
                       stop  |-> TRUE]
                 ELSE IF Len(g.matches) > 0
                 THEN [files |-> acc.files \o g.matches,
                       log   |-> acc.log,
                       calls |-> Append(acc.calls, Call("Glob", glob, TRUE)),
                       stop  |-> FALSE]
                 ELSE [files |-> IF StatOK(f, glob) THEN Append(acc.files, glob)
                                                    ELSE acc.files,
                       log   |-> acc.log,
                       calls |-> acc.calls \o <<Call("Glob", glob, TRUE),
                                                Call("Stat", glob, StatOK(f, glob))>>,
                       stop  |-> FALSE]
             next(r) == IF r.stop THEN [files |-> r.files, log |-> r.log, calls |-> r.calls]
                        ELSE expandLoopBreak(f, Tail2(args),
                                 [files |-> r.files, log |-> r.log, calls |-> r.calls])
         IN  next(body(Glob(f, glob)))

\* expandGlobs, gostat.go:43-64: the loop over args; acc is allFiles so far
RECURSIVE expandLoop(_, _, _)
expandLoop(f, args, acc) ==
    IF Len(args) = 0 THEN acc
    ELSE LET glob == args[1]
             body(g) ==
                 IF g.err
                 THEN \* log.Printf("Glob Error"); continue
                      [files |-> acc.files,
                       log   |-> Append(acc.log, LogLine("Glob Error", glob)),
                       calls |-> Append(acc.calls, Call("Glob", glob, FALSE))]
                 ELSE IF Len(g.matches) > 0
                 THEN [files |-> acc.files \o g.matches,
                       log   |-> acc.log,
                       calls |-> Append(acc.calls, Call("Glob", glob, TRUE))]
                 ELSE \* no match: the pattern itself, if os.Stat finds it
                      [files |-> IF StatOK(f, glob) THEN Append(acc.files, glob)
                                                    ELSE acc.files,
                       log   |-> acc.log,
                       calls |-> acc.calls \o <<Call("Glob", glob, TRUE),
                                                Call("Stat", glob, StatOK(f, glob))>>]
         IN  expandLoop(f, Tail2(args), body(Glob(f, glob)))

\* the glob matches alone, without the literal path of a pattern that matched nothing
RECURSIVE globOnlyLoop(_, _, _)
globOnlyLoop(f, args, acc) ==
    IF Len(args) = 0 THEN acc
    ELSE LET glob == args[1]
             body(g) ==
                 [files |-> acc.files \o g.matches,
                  log   |-> IF g.err THEN Append(acc.log, LogLine("Glob Error", glob))
                                     ELSE acc.log,
                  calls |-> Append(acc.calls, Call("Glob", glob, ~g.err))]
         IN  globOnlyLoop(f, Tail2(args), body(Glob(f, glob)))

expandGlobsGlobOnly(f, args) ==
    globOnlyLoop(f, args, [files |-> <<>>, log |-> <<>>, calls |-> <<>>])

\* expandGlobs, gostat.go:43-64
expandGlobs(f, args) == expandLoop(f, args, [files |-> <<>>, log |-> <<>>, calls |-> <<>>])

\* a map[string]time.Time is a function on the keys it holds
MapGet(t, key) == IF key \in DOMAIN t THEN t[key] ELSE ZeroTime

\* getFileTimes, gostat.go:94-111
getFileTimes(f, file) ==
    IF ~TimesStatOK(f, file)
    THEN [times |-> <<>>, log |-> <<LogLine("getFileTimes Error", file)>>,
          calls |-> <<Call("times.Stat", file, FALSE)>>]
    ELSE LET e    == f[file]
             keys == {"a", "m"} \cup (IF e.hasC THEN {"c"} ELSE {})
                                \cup (IF e.hasB THEN {"b"} ELSE {})
         IN  [times |-> [k \in keys |-> IF k = "a" THEN e.a ELSE IF k = "m" THEN e.m
                                        ELSE IF k = "c" THEN e.c ELSE e.b],
              log   |-> <<>>,
              calls |-> <<Call("times.Stat", file, TRUE)>>]

\* showOne that counts a file whose os.Stat failed
showOneCountAll(f, file) ==
    IF ~StatOK(f, file)
    THEN [count |-> 1,
          out   |-> <<OutLine("name", file, file)>>,
          log   |-> <<LogLine("Lstat Error", file)>>,
          calls |-> <<Call("Stat", file, FALSE)>>]
    ELSE LET body(g) ==
                 [count |-> 1,
                  out   |-> <<OutLine("name", file, file),
                              OutLine("size", file, FormatWithCommas(f[file].size))>>
                            \o (IF "b" \in DOMAIN g.times
                                THEN <<OutLine("btime", file, g.times["b"])>> ELSE <<>>)
                            \o (IF "c" \in DOMAIN g.times
                                THEN <<OutLine("ctime", file, g.times["c"])>> ELSE <<>>)
                            \o <<OutLine("mtime", file, MapGet(g.times, "m")),
                                 OutLine("atime", file, MapGet(g.times, "a")),
                                 OutLine("blank", file, <<>>)>>,
                  log   |-> g.log,
                  calls |-> <<Call("Stat", file, TRUE)>> \o g.calls]
         IN  body(getFileTimes(f, file))

\* showFileTimes, gostat.go:114-140: the body of the loop for one file
showOne(f, file) ==
    IF ~StatOK(f, file)
    THEN [count |-> 0,
          out   |-> <<OutLine("name", file, file)>>,
          log   |-> <<LogLine("Lstat Error", file)>>,
          calls |-> <<Call("Stat", file, FALSE)>>]
    ELSE LET body(g) ==
                 [count |-> 1,
                  out   |-> <<OutLine("name", file, file),
                              OutLine("size", file, FormatWithCommas(f[file].size))>>
                            \o (IF "b" \in DOMAIN g.times
                                THEN <<OutLine("btime", file, g.times["b"])>> ELSE <<>>)
                            \o (IF "c" \in DOMAIN g.times
                                THEN <<OutLine("ctime", file, g.times["c"])>> ELSE <<>>)
                            \o <<OutLine("mtime", file, MapGet(g.times, "m")),
                                 OutLine("atime", file, MapGet(g.times, "a")),
                                 OutLine("blank", file, <<>>)>>,
                  log   |-> g.log,
                  calls |-> <<Call("Stat", file, TRUE)>> \o g.calls]
         IN  body(getFileTimes(f, file))

RECURSIVE showLoop(_, _, _)
showLoop(f, files, acc) ==
    IF Len(files) = 0 THEN acc
    ELSE LET add(r) == [count |-> acc.count + r.count,
                        out   |-> acc.out \o r.out,
                        log   |-> acc.log \o r.log,
                        calls |-> acc.calls \o r.calls]
         IN  showLoop(f, Tail2(files), add(showOne(f, files[1])))

showFileTimes(f, args) ==
    LET body(x) ==
            showLoop(f, x.files, [count |-> 0, out |-> <<>>, log |-> x.log, calls |-> x.calls])
    IN  body(expandGlobs(f, args))

(***************************************************************************)
(* os.Chtimes(file, atime, mtime).  Each time is converted with UnixNano;  *)
(* a zero time.Time leaves the field unchanged when the library omits      *)
(* zero times (z = "omit"), and is converted like any other otherwise.     *)
(***************************************************************************)
chtimesField(old, t, z) == IF t = ZeroTime /\ z = "omit" THEN old ELSE UnixNano(t)

\* Chtimes applied to every entry the process owns
ChtimesEvery(f, file, atime, mtime, z) ==
    IF ~ChtimesOK(f, file) THEN f
    ELSE [n \in Names |->
            IF ChtimesOK(f, n)
            THEN [f[n] EXCEPT !.a = chtimesField(f[n].a, atime, z),
                              !.m = chtimesField(f[n].m, mtime, z),
                              !.c = Now]
            ELSE f[n]]

Chtimes(f, file, atime, mtime, z) ==
    IF ~ChtimesOK(f, file) THEN f
    ELSE [f EXCEPT ![file].a = chtimesField(f[file].a, atime, z),
                   ![file].m = chtimesField(f[file].m, mtime, z),
                   ![file].c = Now]

(***************************************************************************)
(* Bounds and input sets.                                                  *)
(***************************************************************************)
MaxFiles == 2

MaxArgs == 2

OpAccess == "a"

OpModify == "m"

OpBoth == "b"

FileSystems ==
    LET Layouts == [Names -> Profiles \cup {"absent"}]
    IN  { [n \in Names |-> IF l[n] = "absent" THEN Absent ELSE Entry(n, l[n])] :
          l \in {k \in Layouts : Cardinality({n \in Names : k[n] # "absent"}) <= MaxFiles} }

\* the patterns of the command lines: a name, every entry, a class that
\* matches "a" and is itself a name, and a malformed class
Patterns == { <<"a">>, <<"*">>, <<"[", "a", "]">>, <<"[">> }

RECURSIVE SeqsOfLen(_, _)
SeqsOfLen(S, n) ==
    IF n = 0 THEN {<<>>}
    ELSE {Append(q, x) : q \in SeqsOfLen(S, n - 1), x \in S}

ArgLists == UNION {SeqsOfLen(Patterns, n) : n \in 0..MaxArgs}

StampOK == <<"2","0","2","1","0","3","2","9",".","1","4","3","0","2","5">>

StampFar == <<"2","3","0","0","0","1","0","1",".","0","0","0","0","0","0">>

StampNoDay == <<"2","0","2","1","0","2","3","0",".","1","2","0","0","0","0">>

StampShort == <<"2","0","2","1",".","1","4","3","0","2","5">>

\* values of -a, -m, -b: the empty default, or a time stamp text
DateTexts == {StampOK, StampFar, StampNoDay, StampShort}

FlagValues == {<<>>} \cup DateTexts

(***************************************************************************)
(* The process.                                                            *)
(***************************************************************************)
VARIABLES
    fs,         \* the file system
    fs0,        \* the file system when the process started
    zeroOmit,   \* "unset" until os.Chtimes first meets a zero time, then
                \* "omit" or "wrap": what the linked library does with it
    pc,         \* "main", "setFileTime", "setLoop", "exit";
                \* "createDate", "dateOK", "dateErr" when createDate runs alone
    mode,       \* the branch main took
    exitCode,   \* exit status, -1 while running
    version,    \* -v was given
    supplied,   \* the flags among a, m, b given with a non-empty value
    wantChange, \* locals of main
    op,
    dt,
    count,
    args,
    newTime,    \* locals of setFileTime
    files,
    idx,
    out,        \* lines on standard output
    logs,       \* lines written by log.Printf and log.Fatalf
    calls       \* system calls made so far

vars == <<fs, fs0, zeroOmit, pc, mode, exitCode, version, supplied, wantChange,
          op, dt, count, args, newTime, files, idx, out, logs, calls>>

InitLocals ==
    /\ zeroOmit = "unset"
    /\ mode = "none"
    /\ exitCode = -1
    /\ version = FALSE
    /\ supplied = {}
    /\ wantChange = 0
    /\ op = ""
    /\ dt = <<>>
    /\ count = -1
    /\ args = <<>>
    /\ newTime = ZeroTime
    /\ files = <<>>
    /\ idx = 0
    /\ out = <<>>
    /\ logs = <<>>
    /\ calls = <<>>

Init ==
    /\ fs \in FileSystems
    /\ fs0 = fs
    /\ pc = "main"
    /\ InitLocals

\* main, gostat.go:210-227: the tally of -a, -m, -b (later flags win)
flagTally(a, m, b) ==
    [wantChange |-> (IF Len(a) > 0 THEN 1 ELSE 0) + (IF Len(m) > 0 THEN 1 ELSE 0)
                    + (IF Len(b) > 0 THEN 1 ELSE 0),
     op         |-> IF Len(b) > 0 THEN OpBoth ELSE IF Len(m) > 0 THEN OpModify
                    ELSE IF Len(a) > 0 THEN OpAccess ELSE "",
     newTime    |-> IF Len(b) > 0 THEN b ELSE IF Len(m) > 0 THEN m ELSE a,
     supplied   |-> {k \in {"a", "m", "b"} :
                       \/ k = "a" /\ Len(a) > 0
                       \/ k = "m" /\ Len(m) > 0
                       \/ k = "b" /\ Len(b) > 0}]

Exit(code) == pc' = "exit" /\ exitCode' = code

\* the exclusivity test with its threshold off by one
exclusiveViolatedOff(w) == w > 2

\* main, gostat.go:228: more than one of -a, -m, -b was given
exclusiveViolated(w) == w > 1

\* main, gostat.go:199-202: -v prints the version and exits 0
MainVersion ==
    /\ pc = "main"
    /\ \E a \in FlagValues, m \in FlagValues, b \in FlagValues :
          /\ version' = TRUE
          /\ supplied' = flagTally(a, m, b).supplied
    /\ mode' = "version"
    /\ Exit(0)
    /\ UNCHANGED <<fs, fs0, zeroOmit, wantChange, op, dt, count, args, newTime,
                   files, idx, out, logs, calls>>

\* main, gostat.go:204-208: no positional argument: usage, exit 1
MainUsage ==
    /\ pc = "main"
    /\ \E a \in FlagValues, m \in FlagValues, b \in FlagValues :
          /\ version' = FALSE
          /\ supplied' = flagTally(a, m, b).supplied
    /\ mode' = "usage"
    /\ Exit(1)
    /\ UNCHANGED <<fs, fs0, zeroOmit, wantChange, op, dt, count, args, newTime,
                   files, idx, out, logs, calls>>

\* the locals of main after the tally, for a command line that passed the
\* version and usage checks
MainTally(a, m, b, positional) ==
    LET t == flagTally(a, m, b)
    IN  /\ Len(positional) > 0
        /\ version' = FALSE
        /\ supplied' = t.supplied
        /\ wantChange' = t.wantChange
        /\ op' = t.op
        /\ dt' = t.newTime
        /\ args' = positional

\* main, gostat.go:228-230: more than one of -a, -m, -b: fatal
MainExclusive ==
    /\ pc = "main"
    /\ \E a \in FlagValues, m \in FlagValues, b \in FlagValues, positional \in ArgLists :
          /\ MainTally(a, m, b, positional)
          /\ exclusiveViolated(flagTally(a, m, b).wantChange)
    /\ mode' = "exclusive"
    /\ logs' = Append(logs, LogLine("fatal", "mutually exclusive"))
    /\ Exit(1)
    /\ UNCHANGED <<fs, fs0, zeroOmit, count, newTime, files, idx, out, calls>>

\* main, gostat.go:232-236: the time stamp does not match the regexp: fatal
MainInvalidStamp ==
    /\ pc = "main"
    /\ \E a \in FlagValues, m \in FlagValues, b \in FlagValues, positional \in ArgLists :
          /\ MainTally(a, m, b, positional)
          /\ ~exclusiveViolated(flagTally(a, m, b).wantChange)
          /\ flagTally(a, m, b).wantChange > 0
          /\ ~validDT(flagTally(a, m, b).newTime)
    /\ mode' = "mutate"
    /\ logs' = Append(logs, LogLine("fatal", "invalid time stamp"))
    /\ Exit(1)
    /\ UNCHANGED <<fs, fs0, zeroOmit, count, newTime, files, idx, out, calls>>

\* main, gostat.go:232-237: the call of setFileTime(args, newTime, op)
MainSet ==
    /\ pc = "main"
    /\ \E a \in FlagValues, m \in FlagValues, b \in FlagValues, positional \in ArgLists :
          /\ MainTally(a, m, b, positional)
          /\ ~exclusiveViolated(flagTally(a, m, b).wantChange)
          /\ flagTally(a, m, b).wantChange > 0
          /\ validDT(flagTally(a, m, b).newTime)
    /\ mode' = "mutate"
    /\ pc' = "setFileTime"
    /\ UNCHANGED <<fs, fs0, zeroOmit, exitCode, count, newTime, files, idx, out,
                   logs, calls>>

\* display mode that always exits 0
showExitZero(n) == 0

\* exit status of display mode, gostat.go:241-245
showExit(n) == IF n = 0 THEN 1 ELSE 0

\* main, gostat.go:241-245: display mode
MainShow ==
    /\ pc = "main"
    /\ \E a \in FlagValues, m \in FlagValues, b \in FlagValues, positional \in ArgLists :
          /\ MainTally(a, m, b, positional)
          /\ ~exclusiveViolated(flagTally(a, m, b).wantChange)
          /\ ~(flagTally(a, m, b).wantChange > 0)
    /\ mode' = "display"
    /\ LET body(sh) ==
               /\ count' = sh.count
               /\ out' = out \o sh.out
               /\ logs' = logs \o sh.log
                          \o (IF sh.count = 0
                              THEN <<LogLine("fatal", "did not match any files")>>
                              ELSE <<>>)
               /\ calls' = calls \o sh.calls
               /\ Exit(showExit(sh.count))
       IN  body(showFileTimes(fs, args'))
    /\ UNCHANGED <<fs, fs0, zeroOmit, newTime, files, idx>>

\* setFileTime, gostat.go:151-154: the date does not parse: fatal
SetParseFail ==
    /\ pc = "setFileTime"
    /\ createDate(dt).err
    /\ logs' = Append(logs, LogLine("fatal", "Error parsing date"))
    /\ Exit(1)
    /\ UNCHANGED <<fs, fs0, zeroOmit, mode, version, supplied, wantChange, op, dt,
                   count, args, newTime, files, idx, out, calls>>

\* SetExpand without the check of createDate's error
SetExpandUnchecked ==
    /\ pc = "setFileTime"
    /\ newTime' = createDate(dt).t
    /\ LET body(x) ==
               /\ files' = x.files
               /\ logs' = logs \o x.log
               /\ calls' = calls \o x.calls
       IN  body(expandGlobs(fs, args))
    /\ idx' = 1
    /\ pc' = "setLoop"
    /\ UNCHANGED <<fs, fs0, zeroOmit, mode, exitCode, version, supplied, wantChange,
                   op, dt, count, args, out>>

\* setFileTime, gostat.go:151-156: the date parses; the targets are resolved
SetExpand ==
    /\ pc = "setFileTime"
    /\ LET parsed(d) == ~d.err /\ newTime' = d.t
       IN  parsed(createDate(dt))
    /\ LET body(x) ==
               /\ files' = x.files
               /\ logs' = logs \o x.log
               /\ calls' = calls \o x.calls
       IN  body(expandGlobs(fs, args))
    /\ idx' = 1
    /\ pc' = "setLoop"
    /\ UNCHANGED <<fs, fs0, zeroOmit, mode, exitCode, version, supplied, wantChange,
                   op, dt, count, args, out>>

\* the (access, modify) pair handed to os.Chtimes, gostat.go:159-164
chtimesPair(o, currentTimes, t) ==
    IF o = OpModify THEN <<MapGet(currentTimes, "a"), t>>
    ELSE IF o = OpAccess THEN <<t, MapGet(currentTimes, "m")>>
    ELSE <<t, t>>

\* setFileTime, gostat.go:156-174: one iteration of the loop over the targets
SetStep ==
    /\ pc = "setLoop"
    /\ idx <= Len(files)
    /\ LET file == files[idx]
           \* after a successful update: showFileTimes([]string{file})
           confirm(g, sh) ==
               /\ logs' = logs \o g.log \o sh.log
               /\ calls' = calls \o g.calls \o <<Call("Chtimes", file, TRUE)>> \o sh.calls
               /\ out' = out \o sh.out
           update(g, pair) ==
               \E z \in (IF zeroOmit = "unset" /\ ChtimesOK(fs, file)
                            /\ ZeroTime \in {pair[1], pair[2]}
                         THEN {"omit", "wrap"} ELSE {zeroOmit}) :
                  /\ zeroOmit' = z
                  /\ fs' = Chtimes(fs, file, pair[1], pair[2], z)
                  /\ IF ~ChtimesOK(fs, file)
                     THEN /\ logs' = logs \o g.log \o <<LogLine("os.Chtimes Error", file)>>
                          /\ calls' = calls \o g.calls \o <<Call("Chtimes", file, FALSE)>>
                          /\ out' = out
                     ELSE confirm(g, showFileTimes(fs', <<file>>))
                  /\ idx' = idx + 1
                  /\ UNCHANGED <<pc, exitCode>>
           body(g) ==
               IF op \notin {OpModify, OpAccess, OpBoth}
               THEN /\ logs' = logs \o g.log \o <<LogLine("fatal", "Invalid op")>>
                    /\ calls' = calls \o g.calls
                    /\ Exit(1)
                    /\ UNCHANGED <<fs, zeroOmit, idx, out>>
               ELSE update(g, chtimesPair(op, g.times, newTime))
       IN  body(getFileTimes(fs, file))
    /\ UNCHANGED <<fs0, mode, version, supplied, wantChange, op, dt, count, args,
                   newTime, files>>

\* SetReturn with an exit status that reports a failed update
SetReturnStrict ==
    /\ pc = "setLoop"
    /\ idx > Len(files)
    /\ Exit(IF \E k \in 1..Len(calls) : calls[k].fn = "Chtimes" /\ ~calls[k].ok
            THEN 1 ELSE 0)
    /\ UNCHANGED <<fs, fs0, zeroOmit, mode, version, supplied, wantChange, op, dt,
                   count, args, newTime, files, idx, out, logs, calls>>

\* setFileTime returns and main calls os.Exit(0), gostat.go:175, 238
SetReturn ==
    /\ pc = "setLoop"
    /\ idx > Len(files)
    /\ Exit(0)
    /\ UNCHANGED <<fs, fs0, zeroOmit, mode, version, supplied, wantChange, op, dt,
                   count, args, newTime, files, idx, out, logs, calls>>

Next ==
    \/ MainVersion
    \/ MainUsage
    \/ MainExclusive
    \/ MainInvalidStamp
    \/ MainSet
    \/ MainShow
    \/ SetParseFail
    \/ SetExpand
    \/ SetStep
    \/ SetReturn

Spec == Init /\ [][Next]_vars

(***************************************************************************)
(* createDate alone, gostat.go:143-145: called on a text, it returns a     *)
(* time and an error.  The texts are made of two-digit and four-digit      *)
(* fields around the separator, followed by what may trail the seconds.    *)
(***************************************************************************)
YearTexts == { <<"2","0","2","1">>, <<"2","0","2","4">>, <<"1","9","0","0">>,
               <<"2","0","0","0">>, <<"2","0","2">> }

MonthTexts == { <<"0","0">>, <<"0","1">>, <<"0","2">>, <<"0","4">>, <<"1","2">>,
                <<"1","3">> }

DayTexts == { <<"0","0">>, <<"0","1">>, <<"2","8">>, <<"2","9">>, <<"3","0">>,
              <<"3","1">>, <<"3","2">> }

SepTexts == { <<".">>, <<"-">>, <<>> }

HourTexts == { <<"0","0">>, <<"2","3">>, <<"2","4">>, <<"9">> }

SixtyTexts == { <<"0","0">>, <<"5","9">>, <<"6","0">> }

TrailTexts == { <<>>, <<".","5">>, <<".">>, <<"0">>, <<"x">> }

DateInputs ==
    { y \o mo \o d \o p \o h \o mi \o se \o tr :
        y \in YearTexts, mo \in MonthTexts, d \in DayTexts, p \in SepTexts,
        h \in HourTexts, mi \in SixtyTexts, se \in SixtyTexts, tr \in TrailTexts }

InitDate ==
    /\ fs = [n \in Names |-> Absent]
    /\ fs0 = fs
    /\ pc = "createDate"
    /\ dt \in DateInputs
    /\ zeroOmit = "unset" /\ mode = "none" /\ exitCode = -1 /\ version = FALSE
    /\ supplied = {} /\ wantChange = 0 /\ op = "" /\ count = -1 /\ args = <<>>
    /\ newTime = ZeroTime /\ files = <<>> /\ idx = 0
    /\ out = <<>> /\ logs = <<>> /\ calls = <<>>

\* createDate returns a time and a nil error
CreateDateOK ==
    /\ pc = "createDate"
    /\ LET parsed(d) == ~d.err /\ newTime' = d.t
       IN  parsed(createDate(dt))
    /\ pc' = "dateOK"
    /\ UNCHANGED <<fs, fs0, zeroOmit, mode, exitCode, version, supplied, wantChange,
                   op, dt, count, args, files, idx, out, logs, calls>>

\* createDate returns the zero time and an error
CreateDateErr ==
    /\ pc = "createDate"
    /\ LET failed(d) == d.err /\ newTime' = d.t
       IN  failed(createDate(dt))
    /\ pc' = "dateErr"
    /\ UNCHANGED <<fs, fs0, zeroOmit, mode, exitCode, version, supplied, wantChange,
                   op, dt, count, args, files, idx, out, logs, calls>>

NextDate ==
    \/ CreateDateOK
    \/ CreateDateErr

SpecDate == InitDate /\ [][NextDate]_vars


(***************************************************************************)
(* Claims.                                                                 *)
(***************************************************************************)
\* the next step is an iteration of setFileTime's loop on the target files[idx]
AtTarget == pc = "setLoop" /\ idx <= Len(files)

\* C1: for every resolved target whose read and update both succeed, op "a"
\* leaves the modify time as it was and sets the access time to the
\* parsed instant; op "m" leaves the access time as it was and sets the modify
\* time to the parsed instant.
C1_SingleFieldUpdate ==
    [][(AtTarget /\ op \in {OpAccess, OpModify}
          /\ TimesStatOK(fs, files[idx]) /\ ChtimesOK(fs, files[idx]))
       => /\ op = OpAccess => /\ fs'[files[idx]].m = fs[files[idx]].m
                              /\ fs'[files[idx]].a = newTime
          /\ op = OpModify => /\ fs'[files[idx]].a = fs[files[idx]].a
                              /\ fs'[files[idx]].m = newTime]_vars

\* C2: for every resolved target whose update succeeds, op "b" leaves the file
\* with access time equal to modify time, both equal to the parsed instant.
C2_BothUpdate ==
    [][(AtTarget /\ op = OpBoth /\ ChtimesOK(fs, files[idx]))
       => /\ fs'[files[idx]].a = fs'[files[idx]].m
          /\ fs'[files[idx]].a = newTime]_vars

\* the process is back from setFileTime
SetReturned == mode = "mutate" /\ pc = "exit" /\ exitCode = 0

\* C3: after setFileTime returns, every target whose own update call succeeded
\* carries the new time in the selected field(s), wherever the failing targets
\* stand in the list.
C3_BatchIsolation ==
    SetReturned =>
        \A k \in 1..Len(calls) :
            (calls[k].fn = "Chtimes" /\ calls[k].ok)
            => /\ op \in {OpAccess, OpBoth} => fs[calls[k].path].a = newTime
               /\ op \in {OpModify, OpBoth} => fs[calls[k].path].m = newTime


NoUpdateCall == \A k \in 1..Len(calls) : calls[k].fn # "Chtimes"

\* C4: in mutate mode, a time stamp text that violates the YYYYMMDD.HHMMSS
\* structure or names an invalid calendar date ends the process with a nonzero
\* status: the loop over the targets is never entered, no update call is made
\* and every file has the times it had at the start.
C4_BadStampFatal ==
    (mode = "mutate" /\ (~validDT(dt) \/ createDate(dt).err))
    => /\ pc \in {"setFileTime", "exit"}
       /\ pc = "exit" => exitCode # 0
       /\ NoUpdateCall
       /\ fs = fs0

\* a text that passes the regexp of main and fails in createDate ended the
\* process from setFileTime, in a directory that holds a file
C4_Witness ==
    /\ mode = "mutate" /\ validDT(dt) /\ createDate(dt).err
    /\ pc = "exit" /\ exitCode = 1
    /\ Len(args) > 0
    /\ \E n \in Names : ChtimesOK(fs, n)

InFiles(n) == \E i \in 1..Len(files) : files[i] = n

\* C6: setFileTime never changes the access or modify time of a file that is
\* not in the resolved target list.
C6_FrameOutsideTargets ==
    (mode = "mutate" /\ idx >= 1)
    => \A n \in Names :
          (Exists(fs0, n) /\ ~InFiles(n))
          => fs[n].a = fs0[n].a /\ fs[n].m = fs0[n].m

\* setFileTime returned after updating a target while another file of the
\* directory was not among the targets
C6_Witness ==
    /\ SetReturned
    /\ \E k \in 1..Len(calls) : calls[k].fn = "Chtimes" /\ calls[k].ok
    /\ \E n \in Names : ChtimesOK(fs0, n) /\ ~InFiles(n)

\* C7: in display mode the process exits 0 if and only if showFileTimes counted
\* at least one successfully inspected file.
C7_DisplayExit ==
    mode = "display" => pc = "exit" /\ (exitCode = 0 <=> count >= 1)

\* display mode over a non-empty directory with patterns that resolve to no
\* inspected file
C7_Witness ==
    /\ mode = "display" /\ Len(args) > 0 /\ count = 0 /\ exitCode = 1
    /\ \E n \in Names : Exists(fs, n)

\* C8: in mutate mode with exactly one time-setting flag and a time stamp that
\* passes format and calendar validation, the process exits 0 whatever
\* happens per file.
C8_MutateExitZero ==
    (mode = "mutate" /\ Cardinality(supplied) = 1 /\ validDT(dt) /\ ~createDate(dt).err
       /\ pc = "exit")
    => exitCode = 0

\* setFileTime returned after a failed read and a failed update
C8_Witness ==
    /\ SetReturned /\ Cardinality(supplied) = 1
    /\ \E k \in 1..Len(calls) : calls[k].fn = "Chtimes" /\ ~calls[k].ok
    /\ \E k \in 1..Len(calls) : calls[k].fn = "times.Stat" /\ ~calls[k].ok

\* expandGlobs has returned allFiles to setFileTime
Expanded == mode = "mutate" /\ idx >= 1

\* C9: for a single pattern whose glob expansion yields zero matches,
\* expandGlobs returns the one-element list holding the pattern itself when an
\* entry exists at that literal path (os.Stat finds it) and the empty list
\* when none exists.
C9_LiteralFallback ==
    LET body(g) ==
            (~g.err /\ g.matches = <<>>)
            => files = IF StatOK(fs0, args[1]) THEN <<args[1]>> ELSE <<>>
    IN  (Expanded /\ Len(args) = 1) => body(Glob(fs0, args[1]))

\* a pattern with metacharacters matched no name and is itself the name of a file
C9_Witness ==
    /\ Expanded /\ Len(args) = 1
    /\ hasMeta(args[1]) /\ StatOK(fs0, args[1])
    /\ files = <<args[1]>>
    /\ ~Exists(fs0, <<"a">>)

\* the result of one pattern taken alone: its matches, else its literal path
\* if that exists, and nothing for a malformed pattern
OwnResult(f, pattern) ==
    LET body(g) ==
            IF g.err THEN <<>>
            ELSE IF g.matches # <<>> THEN g.matches
            ELSE IF StatOK(f, pattern) THEN <<pattern>> ELSE <<>>
    IN  body(Glob(f, pattern))

RECURSIVE SumLen(_, _)
SumLen(f, patterns) ==
    IF patterns = <<>> THEN 0
    ELSE Len(OwnResult(f, patterns[1])) + SumLen(f, Tail2(patterns))

RECURSIVE ConcatOwn(_, _)
ConcatOwn(f, patterns) ==
    IF patterns = <<>> THEN <<>>
    ELSE OwnResult(f, patterns[1]) \o ConcatOwn(f, Tail2(patterns))

\* C10: for any sequence of patterns the result of expandGlobs is the
\* concatenation, in input order, of every pattern's own result, with no
\* deduplication: its length is the sum of the lengths of these results, and a
\* malformed pattern neither removes nor reorders the results of the others.
C10_Concatenation ==
    Expanded => /\ files = ConcatOwn(fs0, args)
                /\ Len(files) = SumLen(fs0, args)

\* a malformed pattern stands before a pattern that has results
C10_Witness ==
    /\ Expanded /\ Len(args) >= 2
    /\ Match(args[1], <<>>).err
    /\ Len(files) >= 1

\* the text has the form 8 digits, a period, 6 digits
StampForm(s) ==
    /\ Len(s) = 15
    /\ \A i \in (1..8) \cup (10..15) : s[i] \in {"0","1","2","3","4","5","6","7","8","9"}
    /\ s[9] = "."

\* the number written in s[i..j]
RECURSIVE FieldOf(_, _, _)
FieldOf(s, i, j) ==
    IF j < i THEN 0
    ELSE 10 * FieldOf(s, i, j - 1)
         + (CHOOSE v \in 0..9 : s[j] = <<"0","1","2","3","4","5","6","7","8","9">>[v + 1])

LeapYear(y) == y % 4 = 0 /\ (y % 100 # 0 \/ y % 400 = 0)

MonthLength(mo, y) ==
    IF mo = 2 THEN (IF LeapYear(y) THEN 29 ELSE 28)
    ELSE IF mo \in {4, 6, 9, 11} THEN 30 ELSE 31

\* the fields of a text of the form name a calendar date and a time of day
StampFieldsValid(s) ==
    /\ FieldOf(s, 5, 6) \in 1..12
    /\ FieldOf(s, 7, 8) >= 1
    /\ FieldOf(s, 7, 8) <= MonthLength(FieldOf(s, 5, 6), FieldOf(s, 1, 4))
    /\ FieldOf(s, 10, 11) <= 23
    /\ FieldOf(s, 12, 13) <= 59
    /\ FieldOf(s, 14, 15) <= 59

\* the returned instant shows the fields of the text (whole seconds)
FieldsEqual(t, s) ==
    LET same(e) == t.d = e.d /\ t.s = e.s
    IN  same(Date(FieldOf(s, 1, 4), FieldOf(s, 5, 6), FieldOf(s, 7, 8),
                  FieldOf(s, 10, 11), FieldOf(s, 12, 13), FieldOf(s, 14, 15), 0))

\* C11: createDate succeeds exactly on the texts of the form 8 digits, a
\* period, 6 digits whose fields are a valid calendar date and time; on
\* success the instant's year, month, day, hour, minute and second are the
\* text's fields; on every other text it returns an error and the zero time.
C11_CreateDateExact ==
    /\ pc = "dateOK" => StampForm(dt) /\ StampFieldsValid(dt) /\ FieldsEqual(newTime, dt)
    /\ pc = "dateErr" => /\ ~(StampForm(dt) /\ StampFieldsValid(dt))
                         /\ newTime = ZeroTime

\* the positions of the resolved targets that os.Stat finds
Statable(f, targets) == {i \in 1..Len(targets) : StatOK(f, targets[i])}

\* C12: showFileTimes returns the number of resolved targets for which the
\* stat succeeded: a target whose stat fails is not counted, the result is 0
\* when the arguments resolve to no existing file and N when they resolve to
\* N stat-able files.
C12_CountStatable ==
    LET body(x) == count = Cardinality(Statable(fs, x.files))
    IN  mode = "display" => body(expandGlobs(fs, args))

\* showFileTimes counted a file while another resolved target failed its stat
C12_Witness ==
    LET body(x) == count >= 1 /\ count < Len(x.files)
    IN  mode = "display" /\ body(expandGlobs(fs, args))

\* C13: after a successful update of a resolved target in setFileTime, the
\* confirmation report covers exactly one file and that file is the target
\* itself, whatever its name, also when the name contains glob metacharacters
\* and, read as a pattern, matches other existing files.
C13_ConfirmationIsTarget ==
    [][(AtTarget /\ op \in {OpAccess, OpModify, OpBoth} /\ ChtimesOK(fs, files[idx]))
       => /\ Cardinality({k \in (Len(out) + 1)..Len(out') : out'[k].k = "name"}) = 1
          /\ \A k \in (Len(out) + 1)..Len(out') : out'[k].file = files[idx]]_vars

\* C14: in setFileTime, when reading a target's current times fails, that
\* target is skipped: no update call is issued for it, its times stay as they
\* are, and the loop goes on with the next target.
C14_SkipOnFailedRead ==
    [][(AtTarget /\ op \in {OpAccess, OpModify, OpBoth} /\ ~TimesStatOK(fs, files[idx]))
       => /\ \A k \in (Len(calls) + 1)..Len(calls') : calls'[k].fn # "Chtimes"
          /\ fs' = fs
          /\ idx' = idx + 1 /\ pc' = pc]_vars

\* a log line names the path, or is the fatal line of display mode
Diagnosed(path) ==
    \E j \in 1..Len(logs) :
        IF logs[j].tag = "fatal" THEN logs[j].what = "did not match any files"
                                 ELSE logs[j].what = path

\* C15: every failing file system operation of a run (glob error, failed
\* check of the literal path, failed stat, failed read of the times, failed
\* update) causes at least one log line; in particular a pattern that
\* resolves to no target never disappears without a diagnostic, in display
\* mode or in mutate mode.
C15_EveryFailureLogged ==
    /\ \A k \in 1..Len(calls) : ~calls[k].ok => Diagnosed(calls[k].path)
    /\ (mode = "display" \/ SetReturned)
       => \A i \in 1..Len(args) : OwnResult(fs, args[i]) = <<>> => Diagnosed(args[i])

\* the lines a report owes to one target: none when its stat fails, else
\* name, size, btime and ctime when the read times hold them, mtime, atime
LinesOwed(f, file) ==
    LET body(g) ==
            <<<<"name", file>>, <<"size", file>>>>
            \o (IF "b" \in DOMAIN g.times THEN <<<<"btime", file>>>> ELSE <<>>)
            \o (IF "c" \in DOMAIN g.times THEN <<<<"ctime", file>>>> ELSE <<>>)
            \o <<<<"mtime", file>>, <<"atime", file>>>>
    IN  IF StatOK(f, file) THEN body(getFileTimes(f, file)) ELSE <<>>

RECURSIVE ReportOwed(_, _)
ReportOwed(f, targets) ==
    IF targets = <<>> THEN <<>>
    ELSE LinesOwed(f, targets[1]) \o ReportOwed(f, Tail2(targets))

\* kind and file of the lines of standard output, separator lines left out
RECURSIVE LinesShown(_)
LinesShown(o) ==
    IF o = <<>> THEN <<>>
    ELSE (IF o[1].k = "blank" THEN <<>> ELSE <<<<o[1].k, o[1].file>>>>)
         \o LinesShown(Tail2(o))

\* C16: showFileTimes writes lines only for the targets whose stat succeeds:
\* a target whose stat fails gets a log line and no name, size or time line;
\* for every other target the lines are name, size, btime, ctime, mtime,
\* atime in this order, btime and ctime left out exactly when the read times
\* lack them.
C16_ReportLines ==
    LET body(x) ==
            /\ LinesShown(out) = ReportOwed(fs, x.files)
            /\ \A i \in 1..Len(x.files) :
                  ~StatOK(fs, x.files[i])
                  => \E j \in 1..Len(logs) :
                        logs[j].tag = "Lstat Error" /\ logs[j].what = x.files[i]
    IN  mode = "display" => body(expandGlobs(fs, args))

=============================================================================
